---- MODULE Spec2Model ----
(***************************************************************************)
(* MediaBib: the User directory, the Library registry, the browser session *)
(* and the permission-gated views of the libraries, dashboard and accounts *)
(* apps, as a state machine.  One action per request handler or manager    *)
(* entry point; every action records the response it produced in resp.     *)
(***************************************************************************)
EXTENDS Integers, Sequences, FiniteSets, TLC

VARIABLES
    users,      \* the CustomUser table: a sequence, the index is the primary key
    libraries,  \* the Library table: a sequence, the index is the primary key
    session,    \* the browser session as stored server-side
    resp,       \* the response to the latest request
    pwTag,      \* history: pk of the library whose creation last stored a password
    shown,      \* history: how many rendered contexts held that password
    inflight,   \* requests being handled concurrently (session copy, position)
    site_configs, \* the SiteConfig table: the set of its rows
    cache,      \* the "site_config" cache entry: {} when absent, {snapshot} otherwise
    ret         \* what the latest direct call (model, manager, processor) returned

vars ==
    <<users, libraries, session, resp, pwTag, shown, inflight, site_configs, cache, ret>>

\* ---------------------------------------------------------------- bounds
MaxLibraries == 2
MaxUsers == 3
NumRequests == 2
MaxDirectory == 13
MaxOutsideReaders == 1

\* ---------------------------------------------------------------- values
None == "None"
Anonymous == 0

\* An email address is <<local part, domain>>.
SetupEmails == {<<"s", "x">>}
ManagerEmails == {<<"c", "x">>}
Passwords == {"p1", "p2"}

LowerStr(s) ==
    CASE s = "A" -> "a"
      [] s = "B" -> "b"
      [] s = "C" -> "c"
      [] s = "X" -> "x"
      [] OTHER -> s

\* BaseUserManager.normalize_email lowercases the domain; str.lower() the rest.
normalize_email(email) == <<email[1], LowerStr(email[2])>>
lower(email) == <<LowerStr(email[1]), LowerStr(email[2])>>

\* set_password stores a hash; check_password recomputes it.
make_password(raw) == <<"hash", raw>>
check_password(raw, encoded) == encoded = make_password(raw)

\* ---------------------------------------------------------------- principals
AnonymousUser == [is_authenticated |-> FALSE, id |-> Anonymous]

RequestUser(uid) ==
    IF uid \in 1..Len(users)
    THEN [is_authenticated |-> TRUE, id |-> uid, role |-> users[uid].role,
          library_id |-> users[uid].library]
    ELSE AnonymousUser

\* AnonymousUser defines none of the CustomUser role properties.
HasRoleProperties(user) == "role" \in DOMAIN user

is_superadmin(user) == user.role = "superadmin"
is_library_admin(user) == user.role = "library_admin"
is_reader(user) == user.role = "reader"

\* ---------------------------------------------------------------- responses
\* What resp.form holds when the request carried no creation form.
NoForm == [email |-> <<"", "">>, password1 |-> ""]

NoResp ==
    [view |-> "none", method |-> "none", user |-> Anonymous, pk |-> 0,
     status |-> 0, loc |-> None, template |-> None,
     generated_password |-> None, form |-> NoForm, context |-> {}]

Response(view, method, uid, pk, status, loc, template, gp, form) ==
    [view |-> view, method |-> method, user |-> uid, pk |-> pk,
     status |-> status, loc |-> loc, template |-> template,
     generated_password |-> gp, form |-> form, context |-> {}]

\* ---------------------------------------------------------------- tables
NoLibrary == 0
BlankEmail == <<"", "">>

\* Field defaults of accounts.CustomUser.
UserDefaults ==
    [first_name |-> "", last_name |-> "", role |-> "reader", library |-> NoLibrary,
     is_active |-> TRUE, is_staff |-> FALSE, is_superuser |-> FALSE]

EmailTaken(usrs, email) == \E i \in 1..Len(usrs) : usrs[i].email = email

\* CustomUserManager.create_user: the table after the call and the exception raised.
create_user(usrs, email, password, extra_fields) ==
    IF email = BlankEmail
    THEN [users |-> usrs, error |-> "ValueError"]
    ELSE LET e == lower(normalize_email(email))
             user == [email |-> e, password |-> make_password(password)]
                     @@ extra_fields @@ UserDefaults
         IN IF EmailTaken(usrs, e)
            THEN [users |-> usrs, error |-> "IntegrityError"]
            ELSE [users |-> Append(usrs, user), error |-> None]

\* CustomUserManager.create_superuser.
create_superuser(usrs, email, password, extra_fields) ==
    LET extra == extra_fields
                 @@ [is_staff |-> TRUE, is_superuser |-> TRUE, role |-> "superadmin"]
    IN IF extra.is_staff # TRUE \/ extra.is_superuser # TRUE
       THEN [users |-> usrs, error |-> "ValueError"]
       ELSE create_user(usrs, email, password, extra)

LibraryEmailTaken(libs, email) == \E i \in 1..Len(libs) : libs[i].email = email

\* ---------------------------------------------------------------- forms
\* LibraryCreateForm.clean_password2
clean_password2(data) ==
    ~(data.password1 # "" /\ data.password2 # "" /\ data.password1 # data.password2)

\* LibraryCreateForm.is_valid: required fields, Library.email unique, clean_password2.
LibraryCreateForm_is_valid(data, libs) ==
    /\ data.name # ""
    /\ data.email # BlankEmail
    /\ ~LibraryEmailTaken(libs, data.email)
    /\ data.password1 # ""
    /\ data.password2 # ""
    /\ clean_password2(data)

\* The Library row a ModelForm over Meta.fields builds (is_active defaults to True).
NewLibrary(data) ==
    [name |-> data.name, email |-> data.email, phone |-> data.phone,
     address |-> data.address, postal_code |-> data.postal_code, city |-> data.city,
     is_active |-> TRUE]

\* Fault variant of AdminUserFields: the library keyword is not passed.
AdminUserFields_Unlinked(library, pk) ==
    [first_name |-> library.name, last_name |-> "Admin", role |-> "library_admin",
     library |-> NoLibrary]

\* The keyword arguments LibraryCreateForm.save passes to create_user.
AdminUserFields(library, pk) ==
    [first_name |-> library.name, last_name |-> "Admin", role |-> "library_admin",
     library |-> pk]

\* LibraryCreateForm.save: the Library row is written first, then the admin
\* account; nothing wraps the two writes, so the row stays when create_user raises.
LibraryCreateForm_save(data, commit, libs, usrs) ==
    IF ~commit
    THEN [libraries |-> libs, users |-> usrs, error |-> None]
    ELSE LET library == NewLibrary(data)
             libs1 == Append(libs, library)
             made == create_user(usrs, library.email, data.password1,
                                 AdminUserFields(library, Len(libs1)))
         IN [libraries |-> libs1, users |-> made.users, error |-> made.error]

\* LibraryUpdateForm.is_valid: name is the only required field.
LibraryUpdateForm_is_valid(data) == data.name # ""

\* Fault variant of LibraryUpdateForm.save: email is among the fields and is
\* written blank when the page does not send it.
LibraryUpdateForm_save_WritesEmail(library, data) ==
    [library EXCEPT !.name = data.name, !.email = BlankEmail, !.phone = data.phone,
                    !.address = data.address, !.postal_code = data.postal_code,
                    !.city = data.city, !.is_active = data.is_active]

\* LibraryUpdateForm.save: Meta.fields only.
LibraryUpdateForm_save(library, data) ==
    [library EXCEPT !.name = data.name, !.phone = data.phone,
                    !.address = data.address, !.postal_code = data.postal_code,
                    !.city = data.city, !.is_active = data.is_active]

\* ---------------------------------------------------------------- session
EmptySession == [user_id |-> Anonymous, generated_password |-> None]

\* Fault variant of the pop: session.get, which leaves the key in place.
session_pop_rest_Kept(s) == s

\* request.session.pop("generated_password", None): the value, and what is left.
session_pop_value(s) == s.generated_password
session_pop_rest(s) == [s EXCEPT !.generated_password = None]

\* Fault variant of the store: a password already in the session is kept.
session_store_password_KeepsFirst(s, password) ==
    IF s.generated_password # None THEN s
    ELSE [s EXCEPT !.generated_password = password]

\* request.session["generated_password"] = password
session_store_password(s, password) == [s EXCEPT !.generated_password = password]

\* SessionBase.flush(), called by logout().
session_flush(s) == EmptySession

\* ---------------------------------------------------------------- access gates
\* Fault variant of SuperAdminRequiredMixin.test_func: the role is not tested.
test_func_AnyAuthenticated(user) == user.is_authenticated

\* Fault variant of LibraryAdminRequiredMixin.test_func: a library admin passes
\* without a library.
test_func_AnyLibraryAdmin(user) ==
    IF ~user.is_authenticated THEN FALSE
    ELSE IF is_superadmin(user) THEN TRUE
    ELSE is_library_admin(user)

\* libraries.views.SuperAdminRequiredMixin.test_func
SuperAdminRequiredMixin_test_func(user) ==
    user.is_authenticated /\ is_superadmin(user)

\* libraries.views.LibraryAdminRequiredMixin.test_func
LibraryAdminRequiredMixin_test_func(user) ==
    IF ~user.is_authenticated THEN FALSE
    ELSE IF is_superadmin(user) THEN TRUE
    ELSE is_library_admin(user) /\ user.library_id # NoLibrary

\* LoginRequiredMixin first (redirect to login), then UserPassesTestMixin, whose
\* handle_no_permission raises PermissionDenied for an authenticated user.
\* LibraryListView and LibraryCreateView.
SuperAdminGate(user) ==
    IF ~user.is_authenticated THEN "login"
    ELSE IF ~SuperAdminRequiredMixin_test_func(user) THEN "forbidden"
    ELSE "proceed"

\* LibraryUpdateView.
LibraryAdminGate(user) ==
    IF ~user.is_authenticated THEN "login"
    ELSE IF ~LibraryAdminRequiredMixin_test_func(user) THEN "forbidden"
    ELSE "proceed"

\* LibraryDetailView, reader_placeholder_view: login only.
LoginGate(user) == IF ~user.is_authenticated THEN "login" ELSE "proceed"

\* dashboard.views.DashboardAccessMixin.dispatch
DashboardAccessMixin_dispatch(user) ==
    IF ~user.is_authenticated THEN "login"
    ELSE IF HasRoleProperties(user) /\ is_reader(user) THEN "reader_placeholder"
    ELSE "proceed"

\* dashboard.views.SuperAdminRequiredMixin.dispatch: the role properties are read
\* before LoginRequiredMixin.dispatch runs; AnonymousUser has none (AttributeError).
Dashboard_SuperAdminRequiredMixin_dispatch(user) ==
    IF ~HasRoleProperties(user) THEN "error"
    ELSE IF ~is_superadmin(user) /\ is_library_admin(user) THEN "library_admin"
    ELSE IF ~is_superadmin(user) /\ is_reader(user) THEN "reader_placeholder"
    ELSE IF ~user.is_authenticated THEN "login"
    ELSE "proceed"

\* The response of a gate that did not let the request through.
GateResponse(view, method, uid, pk, gate) ==
    CASE gate = "login" ->
           Response(view, method, uid, pk, 302, "login", None, None, NoForm)
      [] gate = "forbidden" ->
           Response(view, method, uid, pk, 403, None, None, None, NoForm)
      [] gate = "error" ->
           Response(view, method, uid, pk, 500, None, None, None, NoForm)
      [] gate = "reader_placeholder" ->
           Response(view, method, uid, pk, 200, None,
                    "dashboard/reader_placeholder.html", None, NoForm)
      [] gate = "library_admin" ->
           Response(view, method, uid, pk, 200, None,
                    "dashboard/library_admin.html", None, NoForm)

\* ---------------------------------------------------------------- object lookup
\* LibraryUpdateView.get_queryset: the primary keys the principal may edit.
LibraryUpdateView_get_queryset(user, libs) ==
    IF is_superadmin(user) THEN 1..Len(libs)
    ELSE {pk \in 1..Len(libs) : pk = user.library_id}

\* Fault variant of get_object: the lookup ignores the tenant of the principal.
get_object_AnyExisting(user, libs, pk) ==
    IF pk \notin 1..Len(libs) THEN "Http404" ELSE "found"

\* LibraryUpdateView.get_object: pk of the object, or "Http404".
LibraryUpdateView_get_object(user, libs, pk) ==
    IF pk \notin LibraryUpdateView_get_queryset(user, libs) THEN "Http404"
    ELSE IF ~is_superadmin(user) /\ pk # user.library_id THEN "Http404"
    ELSE "found"

\* Fault variant of get_success_url: everybody goes to the list.
get_success_url_AlwaysList(user) == "libraries:list"

\* LibraryUpdateView.get_success_url
LibraryUpdateView_get_success_url(user) ==
    IF is_superadmin(user) THEN "libraries:list" ELSE "dashboard:index"

\* Fault variant of get_template_names: the first two branches are exchanged.
get_template_names_Swapped(user) ==
    IF is_superadmin(user) THEN "dashboard/library_admin.html"
    ELSE IF is_library_admin(user) THEN "dashboard/superadmin.html"
    ELSE "dashboard/reader_placeholder.html"

\* DashboardIndexView.get_template_names
get_template_names(user) ==
    IF is_superadmin(user) THEN "dashboard/superadmin.html"
    ELSE IF is_library_admin(user) THEN "dashboard/library_admin.html"
    ELSE "dashboard/reader_placeholder.html"

\* ---------------------------------------------------------------- inputs
\* The forms a superadmin submits to the creation page: well-formed ones, one with
\* a blank name and one whose passwords differ.
CreateForm(name, email, password1, password2) ==
    [name |-> name, email |-> email, phone |-> "", address |-> "", postal_code |-> "",
     city |-> "", password1 |-> password1, password2 |-> password2]

CreateData ==
    {CreateForm("N1", <<"s", "x">>, "p1", "p1"),
     CreateForm("N1", <<"A", "x">>, "p1", "p1"),
     CreateForm("N1", <<"A", "x">>, "p2", "p2"),
     CreateForm("N1", <<"b", "X">>, "p2", "p2"),
     CreateForm("", <<"b", "X">>, "p1", "p1"),
     CreateForm("N1", <<"b", "X">>, "p1", "p2")}

UpdateData ==
    {[name |-> "N2", phone |-> "01", address |-> "1 rue", postal_code |-> "75000",
      city |-> "Paris", is_active |-> FALSE],
     [name |-> "", phone |-> "", address |-> "", postal_code |-> "",
      city |-> "", is_active |-> TRUE]}

\* ---------------------------------------------------------------- state
\* A direct call: its name, its argument, the object it returned ({} for None,
\* {obj} otherwise) and the exception it raised.
Ret(op, arg, value, error) == [op |-> op, arg |-> arg, value |-> value, error |-> error]
NoRet == Ret("none", {}, {}, None)

Idle == [pc |-> "idle", local |-> EmptySession, tag |-> 0, modified |-> FALSE,
         status |-> 0, generated_password |-> None, shownTag |-> 0]

Init ==
    /\ users = <<>>
    /\ libraries = <<>>
    /\ session = EmptySession
    /\ resp = NoResp
    /\ pwTag = 0
    /\ shown = 0
    /\ inflight = [r \in 1..NumRequests |-> Idle]
    /\ site_configs = {}
    /\ cache = {}
    /\ ret = NoRet

Principal == RequestUser(session.user_id)

\* History: a render whose context holds a password shows the one stored last.
Shows(gp) == shown' = IF gp # None THEN shown + 1 ELSE shown

\* django.contrib.auth.login: the session is flushed only when another user was
\* logged in; otherwise its data is kept (cycle_key).
auth_login(s, uid) ==
    IF s.user_id # Anonymous /\ s.user_id # uid
    THEN [EmptySession EXCEPT !.user_id = uid]
    ELSE [s EXCEPT !.user_id = uid]

\* ---------------------------------------------------------------- accounts
\* SuperAdminSetupForm.save: the e-mail is stored as typed.
SuperAdminSetupForm_save(email, password) ==
    [email |-> email, password |-> make_password(password)]
    @@ [role |-> "superadmin", is_staff |-> TRUE, is_superuser |-> TRUE]
    @@ UserDefaults

\* SuperAdminSetupForm.is_valid: the required fields, and UserCreationForm's
\* password2 check.
SuperAdminSetupForm_is_valid(email, password1, password2) ==
    /\ email # BlankEmail
    /\ password1 # ""
    /\ password2 # ""
    /\ password1 = password2

\* Fault variant of SuperAdminSetupView.dispatch: the existence check is dropped.
dispatch_NeverRedirects(usrs) == "proceed"

\* SuperAdminSetupView.dispatch: home when a user exists.
SuperAdminSetupView_dispatch(usrs) == IF Len(usrs) > 0 THEN "home" ELSE "proceed"

\* What resp.form holds after a setup POST.
SetupForm(email, password1, password2) ==
    [email |-> email, password1 |-> password1, password2 |-> password2]

\* SuperAdminSetupView, GET.
SetupGet ==
    /\ resp' = IF SuperAdminSetupView_dispatch(users) = "home"
               THEN Response("setup", "GET", session.user_id, 0, 302, "home",
                             None, None, NoForm)
               ELSE Response("setup", "GET", session.user_id, 0, 200, None,
                             "accounts/setup.html", None, NoForm)
    /\ UNCHANGED <<users, libraries, session, pwTag, shown, inflight,
                   site_configs, cache, ret>>

\* SuperAdminSetupView, POST.
SetupPost(email, password1, password2) ==
    /\ IF SuperAdminSetupView_dispatch(users) = "home"
       THEN /\ resp' = Response("setup", "POST", session.user_id, 0, 302, "home",
                                None, None, SetupForm(email, password1, password2))
            /\ UNCHANGED <<users, session>>
       ELSE IF ~SuperAdminSetupForm_is_valid(email, password1, password2)
       THEN /\ resp' = Response("setup", "POST", session.user_id, 0, 200, None,
                                "accounts/setup.html", None,
                                SetupForm(email, password1, password2))
            /\ UNCHANGED <<users, session>>
       ELSE /\ users' = Append(users, SuperAdminSetupForm_save(email, password1))
            /\ session' = auth_login(session, Len(users'))
            /\ resp' = Response("setup", "POST", session.user_id, 0, 302, "home",
                                None, None, SetupForm(email, password1, password2))
    /\ UNCHANGED <<libraries, pwTag, shown, inflight, site_configs, cache, ret>>

\* CustomLoginView, POST, with the credentials of user uid or a wrong password.
LoginPost(uid, password) ==
    /\ uid \in 1..Len(users)
    /\ IF session.user_id # Anonymous
       THEN /\ resp' = Response("login", "POST", session.user_id, 0, 302, "home",
                                None, None, NoForm)
            /\ UNCHANGED session
       ELSE IF check_password(password, users[uid].password) /\ users[uid].is_active
       THEN /\ session' = auth_login(session, uid)
            /\ resp' = Response("login", "POST", session.user_id, 0, 302, "home",
                                None, None, NoForm)
       ELSE /\ resp' = Response("login", "POST", session.user_id, 0, 200, None,
                                "accounts/login.html", None, NoForm)
            /\ UNCHANGED session
    /\ UNCHANGED <<users, libraries, pwTag, shown, inflight, site_configs, cache, ret>>

\* CustomLogoutView, POST.
LogoutPost ==
    /\ session' = session_flush(session)
    /\ resp' = Response("logout", "POST", session.user_id, 0, 302, "home",
                        None, None, NoForm)
    /\ UNCHANGED <<users, libraries, pwTag, shown, inflight, site_configs, cache, ret>>

\* Fault variant of home_view: the welcome page is rendered without the check.
home_view_AlwaysWelcome(usrs) == "home/index.html"

\* home.views.home_view: the setup page when no user exists, else the welcome page.
home_view(usrs) == IF Len(usrs) = 0 THEN "accounts:setup" ELSE "home/index.html"

\* home_view, GET /.
HomeGet ==
    LET target == home_view(users)
    IN /\ resp' = IF target = "accounts:setup"
                  THEN Response("home", "GET", session.user_id, 0, 302, target,
                                None, None, NoForm)
                  ELSE Response("home", "GET", session.user_id, 0, 200, None,
                                target, None, NoForm)
       /\ UNCHANGED <<users, libraries, session, pwTag, shown, inflight,
                      site_configs, cache, ret>>

\* User.objects.create_user, called outside a request (shell, fixtures).
ManagerCreateUser(email, role, library) ==
    /\ Len(users) < MaxUsers
    /\ library \in {NoLibrary} \cup 1..Len(libraries)
    /\ users' = create_user(users, email, "p1", [role |-> role, library |-> library]).users
    /\ resp' = NoResp
    /\ UNCHANGED <<libraries, session, pwTag, shown, inflight, site_configs, cache, ret>>

\* User.objects.create_user(email, "p1", **extra_fields); the outcome is kept in ret.
ManagerCreateUserWith(email, extra_fields) ==
    LET made == create_user(users, email, "p1", extra_fields)
    IN /\ Len(users) < MaxUsers
       /\ users' = made.users
       /\ ret' = Ret("create_user", {[email |-> email] @@ extra_fields},
                     IF made.error = None THEN {Len(made.users)} ELSE {}, made.error)
       /\ resp' = NoResp
       /\ UNCHANGED <<libraries, session, pwTag, shown, inflight, site_configs, cache>>

\* User.objects.create_superuser(email, "p1", **extra_fields).
ManagerCreateSuperuser(email, extra_fields) ==
    LET made == create_superuser(users, email, "p1", extra_fields)
    IN /\ Len(users) < MaxUsers
       /\ users' = made.users
       /\ ret' = Ret("create_superuser", {[email |-> email] @@ extra_fields},
                     IF made.error = None THEN {Len(made.users)} ELSE {}, made.error)
       /\ resp' = NoResp
       /\ UNCHANGED <<libraries, session, pwTag, shown, inflight, site_configs, cache>>

\* ---------------------------------------------------------------- libraries
\* LibraryListView, GET.
LibraryListGet ==
    LET user == Principal
        gate == SuperAdminGate(user)
    IN /\ resp' = IF gate # "proceed"
                  THEN GateResponse("libraries:list", "GET", user.id, 0, gate)
                  ELSE Response("libraries:list", "GET", user.id, 0, 200, None,
                                "libraries/library_list.html", None, NoForm)
       /\ UNCHANGED <<users, libraries, session, pwTag, shown, inflight, site_configs, cache, ret>>

\* Fault variant of get_context_data: the password is read but never removed.
get_context_data_Peek(s) ==
    [generated_password |-> s.generated_password, session |-> s]

\* LibraryCreateView.get_context_data: the password is popped from the session
\* and put in the context when it is truthy.
LibraryCreateView_get_context_data(s) ==
    [generated_password |-> session_pop_value(s), session |-> session_pop_rest(s)]

\* LibraryCreateView, GET.
LibraryCreateGet ==
    LET user == Principal
        gate == SuperAdminGate(user)
        ctx == LibraryCreateView_get_context_data(session)
    IN /\ IF gate # "proceed"
          THEN /\ resp' = GateResponse("libraries:create", "GET", user.id, 0, gate)
               /\ UNCHANGED <<session, shown>>
          ELSE /\ resp' = Response("libraries:create", "GET", user.id, 0, 200, None,
                                   "libraries/library_form.html",
                                   ctx.generated_password, NoForm)
               /\ session' = ctx.session
               /\ Shows(ctx.generated_password)
       /\ UNCHANGED <<users, libraries, pwTag, inflight, site_configs, cache, ret>>

\* LibraryCreateView, POST: form_invalid renders the form again (get_context_data);
\* form_valid saves, stores the password in the session and redirects.
LibraryCreatePost(data) ==
    LET user == Principal
        gate == SuperAdminGate(user)
        ctx == LibraryCreateView_get_context_data(session)
        sent == [email |-> data.email, password1 |-> data.password1]
        saved == LibraryCreateForm_save(data, TRUE, libraries, users)
    IN IF gate # "proceed"
       THEN /\ resp' = GateResponse("libraries:create", "POST", user.id, 0, gate)
            /\ UNCHANGED <<users, libraries, session, pwTag, shown, inflight, site_configs, cache, ret>>
       ELSE IF ~LibraryCreateForm_is_valid(data, libraries)
       THEN /\ resp' = Response("libraries:create", "POST", user.id, 0, 200, None,
                                "libraries/library_form.html",
                                ctx.generated_password, sent)
            /\ session' = ctx.session
            /\ Shows(ctx.generated_password)
            /\ UNCHANGED <<users, libraries, pwTag, inflight, site_configs, cache, ret>>
       ELSE /\ Len(libraries) < MaxLibraries
            /\ Len(users) < MaxUsers
            /\ libraries' = saved.libraries
            /\ users' = saved.users
            /\ IF saved.error # None
               THEN /\ resp' = Response("libraries:create", "POST", user.id, 0, 500,
                                        None, None, None, sent)
                    /\ UNCHANGED <<session, pwTag, shown>>
               ELSE /\ resp' = Response("libraries:create", "POST", user.id,
                                        Len(libraries'), 302, "libraries:list",
                                        None, None, sent)
                    /\ session' = IF data.password1 # ""
                                  THEN session_store_password(session, data.password1)
                                  ELSE session
                    /\ pwTag' = IF data.password1 # "" THEN Len(libraries') ELSE pwTag
                    /\ shown' = IF data.password1 # "" THEN 0 ELSE shown
            /\ UNCHANGED <<inflight, site_configs, cache, ret>>

\* LibraryCreateForm(data).save(commit=False), called on a valid form.
FormSaveNoCommit(data) ==
    LET saved == LibraryCreateForm_save(data, FALSE, libraries, users)
    IN /\ LibraryCreateForm_is_valid(data, libraries)
       /\ libraries' = saved.libraries
       /\ users' = saved.users
       /\ resp' = Response("LibraryCreateForm.save", "commit=False", Anonymous, 0, 0,
                           None, None, None, NoForm)
       /\ UNCHANGED <<session, pwTag, shown, inflight, site_configs, cache, ret>>

\* LibraryUpdateView, GET.
LibraryUpdateGet(pk) ==
    LET user == Principal
        gate == LibraryAdminGate(user)
    IN /\ resp' = IF gate # "proceed"
                  THEN GateResponse("libraries:update", "GET", user.id, pk, gate)
                  ELSE IF LibraryUpdateView_get_object(user, libraries, pk) = "Http404"
                  THEN Response("libraries:update", "GET", user.id, pk, 404, None,
                                None, None, NoForm)
                  ELSE Response("libraries:update", "GET", user.id, pk, 200, None,
                                "libraries/library_update.html", None, NoForm)
       /\ UNCHANGED <<users, libraries, session, pwTag, shown, inflight, site_configs, cache, ret>>

\* LibraryUpdateView, POST.
LibraryUpdatePost(pk, data) ==
    LET user == Principal
        gate == LibraryAdminGate(user)
    IN /\ IF gate # "proceed"
          THEN /\ resp' = GateResponse("libraries:update", "POST", user.id, pk, gate)
               /\ UNCHANGED libraries
          ELSE IF LibraryUpdateView_get_object(user, libraries, pk) = "Http404"
          THEN /\ resp' = Response("libraries:update", "POST", user.id, pk, 404, None,
                                   None, None, NoForm)
               /\ UNCHANGED libraries
          ELSE IF ~LibraryUpdateForm_is_valid(data)
          THEN /\ resp' = Response("libraries:update", "POST", user.id, pk, 200, None,
                                   "libraries/library_update.html", None, NoForm)
               /\ UNCHANGED libraries
          ELSE /\ libraries' = [libraries EXCEPT
                                  ![pk] = LibraryUpdateForm_save(libraries[pk], data)]
               /\ resp' = Response("libraries:update", "POST", user.id, pk, 302,
                                   LibraryUpdateView_get_success_url(user),
                                   None, None, NoForm)
       /\ UNCHANGED <<users, session, pwTag, shown, inflight, site_configs, cache, ret>>

\* Fault variant of the annotation: only the readers are counted.
user_count_ReadersOnly(usrs, pk) ==
    Cardinality({uid \in 1..Len(usrs) :
                    usrs[uid].library = pk /\ usrs[uid].role = "reader"})

\* LibraryDetailView.get_queryset: annotate(user_count=Count("users")), the users
\* whose library is the row.
user_count(usrs, pk) == Cardinality({uid \in 1..Len(usrs) : usrs[uid].library = pk})

\* LibraryDetailView, GET.
LibraryDetailGet(pk) ==
    LET user == Principal
        gate == LoginGate(user)
    IN /\ resp' = IF gate # "proceed"
                  THEN GateResponse("libraries:detail", "GET", user.id, pk, gate)
                  ELSE IF pk \notin 1..Len(libraries)
                  THEN Response("libraries:detail", "GET", user.id, pk, 404, None,
                                None, None, NoForm)
                  ELSE [Response("libraries:detail", "GET", user.id, pk, 200, None,
                                 "libraries/library_detail.html", None, NoForm)
                          EXCEPT !.context = {[user_count |-> user_count(users, pk)]}]
       /\ UNCHANGED <<users, libraries, session, pwTag, shown, inflight, site_configs, cache, ret>>

\* ---------------------------------------------------------------- dashboard
\* readers_qs[:10]
ReadersShown == 10
\* Library.objects.order_by("-created_at")[:5]
RecentLibraries == 5

\* qs[:n] of a queryset ordered newest first (Meta.ordering of CustomUser and of
\* Library, order_by("-created_at")): its n last keys.
LastN(S, n) == {x \in S : Cardinality({y \in S : y > x}) < n}

\* Fault variant of _get_superadmin_context: the filters of the counts are lost.
get_superadmin_context_Unfiltered(usrs, libs) ==
    [page_title |-> "Tableau de bord",
     total_users |-> Len(usrs),
     active_users |-> Len(usrs),
     total_readers |-> Len(usrs),
     total_library_admins |-> Len(usrs),
     total_libraries |-> Len(libs),
     active_libraries |-> Len(libs),
     recent_libraries |-> LastN(1..Len(libs), RecentLibraries)]

\* DashboardIndexView._get_superadmin_context: Count("id", filter=Q(...)).
get_superadmin_context(usrs, libs) ==
    [page_title |-> "Tableau de bord",
     total_users |-> Cardinality(1..Len(usrs)),
     active_users |-> Cardinality({uid \in 1..Len(usrs) : usrs[uid].is_active}),
     total_readers |-> Cardinality({uid \in 1..Len(usrs) : usrs[uid].role = "reader"}),
     total_library_admins |->
         Cardinality({uid \in 1..Len(usrs) : usrs[uid].role = "library_admin"}),
     total_libraries |-> Cardinality(1..Len(libs)),
     active_libraries |-> Cardinality({pk \in 1..Len(libs) : libs[pk].is_active}),
     recent_libraries |-> LastN(1..Len(libs), RecentLibraries)]

\* DashboardIndexView._get_library_context: the readers of the principal's library,
\* the ten newest of them, and the length of that list.
get_library_context(user, usrs) ==
    LET readers_qs == {uid \in 1..Len(usrs) :
                          usrs[uid].library = user.library_id /\ usrs[uid].role = "reader"}
        readers_list == LastN(readers_qs, ReadersShown)
    IN [page_title |-> "Ma Médiathèque",
        total_readers |-> Cardinality(readers_list),
        readers |-> readers_list]

\* DashboardIndexView.get_context_data: {} when the role adds nothing.
DashboardIndexView_get_context_data(user, usrs, libs) ==
    IF is_superadmin(user) THEN {get_superadmin_context(usrs, libs)}
    ELSE IF is_library_admin(user) THEN {get_library_context(user, usrs)}
    ELSE {}

\* DashboardIndexView, GET.
DashboardIndexGet ==
    LET user == Principal
        gate == DashboardAccessMixin_dispatch(user)
    IN /\ resp' = IF gate # "proceed"
                  THEN GateResponse("dashboard:index", "GET", user.id, 0, gate)
                  ELSE [Response("dashboard:index", "GET", user.id, 0, 200, None,
                                 get_template_names(user), None, NoForm)
                          EXCEPT !.context =
                             DashboardIndexView_get_context_data(user, users, libraries)]
       /\ UNCHANGED <<users, libraries, session, pwTag, shown, inflight, site_configs, cache, ret>>

\* reader_placeholder_view (login_required), GET.
ReaderPlaceholderGet ==
    LET user == Principal
        gate == LoginGate(user)
    IN /\ resp' = IF gate # "proceed"
                  THEN GateResponse("dashboard:reader", "GET", user.id, 0, gate)
                  ELSE Response("dashboard:reader", "GET", user.id, 0, 200, None,
                                "dashboard/reader_placeholder.html", None, NoForm)
       /\ UNCHANGED <<users, libraries, session, pwTag, shown, inflight, site_configs, cache, ret>>

\* dashboard.views.SuperAdminRequiredMixin.get_library_context: the readers of
\* the principal's library, readers.count() of them and the ten newest.
SuperAdminRequiredMixin_get_library_context(user, usrs) ==
    LET readers == {uid \in 1..Len(usrs) :
                       usrs[uid].library = user.library_id /\ usrs[uid].role = "reader"}
    IN [page_title |-> "Ma Médiathèque",
        total_readers |-> Cardinality(readers),
        readers |-> LastN(readers, ReadersShown)]

\* A TemplateView behind dashboard.views.SuperAdminRequiredMixin, GET.
SuperAdminMixinViewGet ==
    LET user == Principal
        gate == Dashboard_SuperAdminRequiredMixin_dispatch(user)
    IN /\ resp' = IF gate = "library_admin"
                  THEN [GateResponse("dashboard:mixin", "GET", user.id, 0, gate)
                          EXCEPT !.context =
                             {SuperAdminRequiredMixin_get_library_context(user, users)}]
                  ELSE IF gate # "proceed"
                  THEN GateResponse("dashboard:mixin", "GET", user.id, 0, gate)
                  ELSE Response("dashboard:mixin", "GET", user.id, 0, 200, None,
                                "test_template.html", None, NoForm)
       /\ UNCHANGED <<users, libraries, session, pwTag, shown, inflight, site_configs, cache, ret>>

\* ---------------------------------------------------------------- specification
Next ==
    \/ \E e \in SetupEmails, p2 \in Passwords : SetupPost(e, "p1", p2)
    \/ \E uid \in 1..Len(users), p \in Passwords : LoginPost(uid, p)
    \/ LogoutPost
    \/ \E e \in ManagerEmails, role \in {"reader", "library_admin"} :
          ManagerCreateUser(e, role, NoLibrary)
    \/ LibraryListGet
    \/ LibraryCreateGet
    \/ \E data \in CreateData : LibraryCreatePost(data)
    \/ \E data \in CreateData : FormSaveNoCommit(data)
    \/ \E pk \in 1..(Len(libraries) + 1) : LibraryUpdateGet(pk)
    \/ \E pk \in 1..(Len(libraries) + 1), data \in UpdateData : LibraryUpdatePost(pk, data)
    \/ \E pk \in 1..(Len(libraries) + 1) : LibraryDetailGet(pk)
    \/ DashboardIndexGet
    \/ ReaderPlaceholderGet
    \/ SuperAdminMixinViewGet

Spec == Init /\ [][Next]_vars

\* ---------------------------------------------------------------- concurrent GETs
\* A GET of the creation page handled by its own worker, in the steps the session
\* middleware gives it: the session data is loaded on first access, the view pops
\* from that copy, and the copy is written back when the response leaves if it
\* was modified.

\* SessionStore.load(): the request works on its own copy of the session data.
ReqLoad(r) ==
    /\ inflight[r].pc = "idle"
    /\ inflight' = [inflight EXCEPT ![r] =
                      [Idle EXCEPT !.pc = "loaded", !.local = session, !.tag = pwTag]]
    /\ UNCHANGED <<users, libraries, session, resp, pwTag, shown, site_configs, cache, ret>>

\* LibraryCreateView.get (gate, then get_context_data) on the request's copy.
ReqRender(r) ==
    LET q == inflight[r]
        user == RequestUser(q.local.user_id)
        gate == SuperAdminGate(user)
        ctx == LibraryCreateView_get_context_data(q.local)
        gp == IF gate = "proceed" THEN ctx.generated_password ELSE None
    IN /\ q.pc = "loaded"
       /\ inflight' = [inflight EXCEPT ![r] =
             IF gate # "proceed"
             THEN [q EXCEPT !.pc = "rendered",
                            !.status = GateResponse("libraries:create", "GET",
                                                    user.id, 0, gate).status]
             ELSE [q EXCEPT !.pc = "rendered", !.status = 200,
                            !.local = ctx.session,
                            !.modified = (ctx.generated_password # None),
                            !.generated_password = ctx.generated_password,
                            !.shownTag = IF ctx.generated_password # None
                                         THEN q.tag ELSE 0]]
       /\ shown' = IF gp # None /\ q.tag = pwTag THEN shown + 1 ELSE shown
       /\ UNCHANGED <<users, libraries, session, resp, pwTag, site_configs, cache, ret>>

\* SessionMiddleware.process_response: a modified session is saved whole.
ReqSave(r) ==
    /\ inflight[r].pc = "rendered"
    /\ session' = IF inflight[r].modified THEN inflight[r].local ELSE session
    /\ inflight' = [inflight EXCEPT ![r].pc = "done"]
    /\ UNCHANGED <<users, libraries, resp, pwTag, shown, site_configs, cache, ret>>

\* The worker takes the next GET.
ReqDone(r) ==
    /\ inflight[r].pc = "done"
    /\ inflight' = [inflight EXCEPT ![r] = Idle]
    /\ UNCHANGED <<users, libraries, session, resp, pwTag, shown, site_configs, cache, ret>>

NextConc ==
    \/ \E e \in SetupEmails : SetupPost(e, "p1", "p1")
    \/ \E data \in CreateData : LibraryCreatePost(data)
    \/ \E r \in 1..NumRequests : ReqLoad(r)
    \/ \E r \in 1..NumRequests : ReqRender(r)
    \/ \E r \in 1..NumRequests : ReqSave(r)
    \/ \E r \in 1..NumRequests : ReqDone(r)

SpecConc == Init /\ [][NextConc]_vars

\* ---------------------------------------------------------------- concurrent setup
\* Valid POSTs of the setup form sent by different browsers, each handled by its
\* own worker and its own session.  Django's default is autocommit: every query of
\* a request is a statement of its own, and the statements of two requests
\* interleave.

\* The addresses the browsers type.
ConcurrentSetupEmails == SetupEmails \cup ManagerEmails

\* The worker of a setup POST: the e-mail of its form next to its position.
SetupRequest(pc, email, status) ==
    [email |-> email] @@ [Idle EXCEPT !.pc = pc, !.status = status]

\* SuperAdminSetupView.dispatch: User.objects.exists().
SetupReqDispatch(r, email) ==
    /\ inflight[r].pc = "idle"
    /\ inflight' = [inflight EXCEPT ![r] =
                      IF SuperAdminSetupView_dispatch(users) = "home"
                      THEN SetupRequest("done", email, 302)
                      ELSE SetupRequest("setup_dispatched", email, 0)]
    /\ UNCHANGED <<users, libraries, session, resp, pwTag, shown, site_configs, cache, ret>>

\* form.is_valid(): the fields are valid; validate_unique queries the e-mail.
SetupReqValidate(r) ==
    LET q == inflight[r]
    IN /\ q.pc = "setup_dispatched"
       /\ inflight' = [inflight EXCEPT ![r] =
             IF /\ SuperAdminSetupForm_is_valid(q.email, "p1", "p1")
                /\ ~\E uid \in 1..Len(users) : users[uid].email = q.email
             THEN [q EXCEPT !.pc = "setup_valid"]
             ELSE [q EXCEPT !.pc = "done", !.status = 200]]
       /\ UNCHANGED <<users, libraries, session, resp, pwTag, shown, site_configs, cache, ret>>

\* form_valid: form.save() inserts the row (IntegrityError on a taken e-mail, the
\* column being unique), then login() on the request's session.
SetupReqSave(r) ==
    LET q == inflight[r]
        taken == \E uid \in 1..Len(users) : users[uid].email = q.email
    IN /\ q.pc = "setup_valid"
       /\ users' = IF taken THEN users
                   ELSE Append(users, SuperAdminSetupForm_save(q.email, "p1"))
       /\ inflight' = [inflight EXCEPT ![r] =
             IF taken THEN [q EXCEPT !.pc = "done", !.status = 500]
             ELSE [q EXCEPT !.pc = "done", !.status = 302,
                            !.local = auth_login(q.local, Len(users'))]]
       /\ UNCHANGED <<libraries, session, resp, pwTag, shown, site_configs, cache, ret>>

NextSetupConc ==
    \/ \E r \in 1..NumRequests, e \in ConcurrentSetupEmails : SetupReqDispatch(r, e)
    \/ \E r \in 1..NumRequests : SetupReqValidate(r)
    \/ \E r \in 1..NumRequests : SetupReqSave(r)
    \/ \E r \in 1..NumRequests : ReqDone(r)

SpecSetupConc == Init /\ [][NextSetupConc]_vars

\* ---------------------------------------------------------------- site configuration
requestVars == <<users, libraries, session, resp, pwTag, shown, inflight>>

\* An instance that was given no primary key.
NoPk == 0
SoloPk == 1

\* Field defaults of config.SiteConfig.
SiteConfigDefaults ==
    [site_name |-> "MediaBibli", site_description |-> "", contact_email |-> "",
     primary_color |-> "#2563eb", maintenance_mode |-> FALSE]

\* SiteConfig(pk=pk, **fields): an instance that is not saved yet.
SiteConfig(pk, fields) == [pk |-> pk] @@ fields @@ SiteConfigDefaults

HasPk(table, pk) == \E row \in table : row.pk = pk

\* models.Model.save for an instance whose primary key is set: force_insert is an
\* INSERT (IntegrityError on a taken key); otherwise an UPDATE of the row with that
\* key, and an INSERT when there is none.
Model_save(table, instance, force_insert) ==
    IF force_insert
    THEN IF HasPk(table, instance.pk)
         THEN [table |-> table, error |-> "IntegrityError"]
         ELSE [table |-> table \cup {instance}, error |-> None]
    ELSE [table |-> {row \in table : row.pk # instance.pk} \cup {instance},
          error |-> None]

\* SiteConfig.save: the key is forced to 1, the arguments go to Model.save.
SiteConfig_save(table, instance, force_insert) ==
    Model_save(table, [instance EXCEPT !.pk = SoloPk], force_insert)

\* Fault variant of get_solo: a new row is created on every call.
get_solo_AlwaysCreates(table) ==
    LET obj == SiteConfig(Cardinality(table) + 1, << >>)
    IN [table |-> table \cup {obj}, obj |-> {obj}, error |-> None]

\* SiteConfig.get_solo: objects.get_or_create(pk=1), whose create is
\* save(force_insert=True) of an instance with the defaults.
SiteConfig_get_solo(table) ==
    IF HasPk(table, SoloPk)
    THEN [table |-> table, obj |-> {row \in table : row.pk = SoloPk}, error |-> None]
    ELSE LET obj == SiteConfig(SoloPk, << >>)
             saved == SiteConfig_save(table, obj, TRUE)
         IN [table |-> saved.table,
             obj |-> IF saved.error = None THEN {obj} ELSE {},
             error |-> saved.error]

\* Fault variant of site_config: the failed read is cached with the defaults.
site_config_CachesFailure(c, table, db_ok) ==
    IF c # {} THEN [config |-> c, cache |-> c, table |-> table, error |-> None]
    ELSE IF ~db_ok
    THEN [config |-> {}, cache |-> {SiteConfig(SoloPk, << >>)}, table |-> table,
          error |-> None]
    ELSE LET got == SiteConfig_get_solo(table)
         IN [config |-> got.obj, cache |-> got.obj, table |-> got.table,
             error |-> None]

\* Fault variant of site_config: the cache is never consulted.
site_config_NoCache(c, table, db_ok) ==
    IF ~db_ok
    THEN [config |-> {}, cache |-> c, table |-> table, error |-> None]
    ELSE LET got == SiteConfig_get_solo(table)
         IN [config |-> got.obj, cache |-> got.obj, table |-> got.table,
             error |-> None]

\* config.context_processors.site_config: the cached snapshot when there is one;
\* otherwise get_solo, whose result is cached; an exception of get_solo is
\* swallowed and nothing is cached.  db_ok: the database answers.
site_config(c, table, db_ok) ==
    IF c # {} THEN [config |-> c, cache |-> c, table |-> table, error |-> None]
    ELSE IF ~db_ok
    THEN [config |-> {}, cache |-> c, table |-> table, error |-> None]
    ELSE LET got == SiteConfig_get_solo(table)
         IN IF got.error # None
            THEN [config |-> {}, cache |-> c, table |-> got.table, error |-> None]
            ELSE [config |-> got.obj, cache |-> got.obj, table |-> got.table,
                  error |-> None]

\* The field values a caller gives an instance before saving it.
ConfigFields ==
    {[site_name |-> "A"], [site_name |-> "B", maintenance_mode |-> TRUE],
     [site_name |-> "A", primary_color |-> "#000000"]}

InitialPks == {NoPk, SoloPk, 2}

\* instance.save(force_insert=...) of SiteConfig(pk=pk, **fields); objects.create
\* is the call with force_insert=True.
SiteConfigSave(pk, fields, force_insert) ==
    LET instance == SiteConfig(pk, fields)
        saved == SiteConfig_save(site_configs, instance, force_insert)
    IN /\ site_configs' = saved.table
       /\ ret' = Ret("save", {instance},
                     IF saved.error = None THEN {[instance EXCEPT !.pk = SoloPk]}
                     ELSE {}, saved.error)
       /\ UNCHANGED cache
       /\ UNCHANGED requestVars

\* SiteConfig.get_solo()
SiteConfigGetSolo ==
    LET got == SiteConfig_get_solo(site_configs)
    IN /\ site_configs' = got.table
       /\ ret' = Ret("get_solo", site_configs, got.obj, got.error)
       /\ UNCHANGED cache
       /\ UNCHANGED requestVars

\* site_config(request), as every template render calls it.
SiteConfigContext(db_ok) ==
    LET out == site_config(cache, site_configs, db_ok)
    IN /\ site_configs' = out.table
       /\ cache' = out.cache
       /\ ret' = Ret("site_config", IF db_ok THEN {} ELSE {"DB Error"},
                     out.config, out.error)
       /\ UNCHANGED requestVars

\* The cache entry reaches its timeout (3600 s) or is deleted (cache.delete).
CacheExpire ==
    /\ cache # {}
    /\ cache' = {}
    /\ ret' = Ret("cache.delete", {}, {}, None)
    /\ UNCHANGED site_configs
    /\ UNCHANGED requestVars

NextConfig ==
    \/ \E pk \in InitialPks, fields \in ConfigFields, force_insert \in BOOLEAN :
          SiteConfigSave(pk, fields, force_insert)
    \/ SiteConfigGetSolo
    \/ \E db_ok \in BOOLEAN : SiteConfigContext(db_ok)
    \/ CacheExpire

SpecConfig == Init /\ [][NextConfig]_vars

\* ---------------------------------------------------------------- account creation
\* The addresses given to the setup form and to the manager, in two spellings.
AccountEmails == {<<"c", "x">>, <<"C", "X">>}

\* The keyword arguments callers give create_user and create_superuser.
CreateUserExtras == {[role |-> "reader"], [role |-> "superadmin"]}
CreateSuperuserExtras ==
    {<< >>, [is_staff |-> FALSE], [is_superuser |-> FALSE], [role |-> "reader"]}

NextAccounts ==
    \/ SetupGet
    \/ \E e \in AccountEmails \cup {BlankEmail}, p2 \in Passwords : SetupPost(e, "p1", p2)
    \/ \E e \in AccountEmails, extra \in CreateUserExtras : ManagerCreateUserWith(e, extra)
    \/ \E e \in AccountEmails, extra \in CreateSuperuserExtras :
          ManagerCreateSuperuser(e, extra)
    \/ \E data \in CreateData : LibraryCreatePost(data)
    \/ LogoutPost
    \/ HomeGet

SpecAccounts == Init /\ [][NextAccounts]_vars

\* ---------------------------------------------------------------- dashboard contents
\* The users a shell or a fixture adds before the dashboard is looked at.
DashEmails == {<<"c", "x">>, <<"d", "x">>}
DashExtras ==
    {[role |-> "reader"], [role |-> "reader", is_active |-> FALSE],
     [role |-> "library_admin"], [role |-> "guest"]}
DashLibraryData == {CreateForm("N1", <<"A", "x">>, "p1", "p1")}

NextDash ==
    \/ \E e \in SetupEmails : SetupPost(e, "p1", "p1")
    \/ \E e \in DashEmails, extra \in DashExtras : ManagerCreateUserWith(e, extra)
    \/ \E data \in DashLibraryData : LibraryCreatePost(data)
    \/ \E pk \in 1..Len(libraries), data \in UpdateData : LibraryUpdatePost(pk, data)
    \/ \E uid \in 1..Len(users) : LoginPost(uid, "p1")
    \/ LogoutPost
    \/ DashboardIndexGet
    \/ SuperAdminMixinViewGet

SpecDash == Init /\ [][NextDash]_vars

\* ---------------------------------------------------------------- library detail
DetailRoles == {"reader", "library_admin", "guest"}

NextDetail ==
    \/ \E e \in SetupEmails : SetupPost(e, "p1", "p1")
    \/ \E data \in DashLibraryData : LibraryCreatePost(data)
    \/ \E e \in DashEmails, role \in DetailRoles,
          library \in {NoLibrary} \cup 1..Len(libraries) :
          ManagerCreateUser(e, role, library)
    \/ \E uid \in 1..Len(users) : LoginPost(uid, "p1")
    \/ LogoutPost
    \/ \E pk \in 1..(Len(libraries) + 1) : LibraryDetailGet(pk)

SpecDetail == Init /\ [][NextDetail]_vars

\* ---------------------------------------------------------------- readers of a library
Outsiders(usrs) ==
    {uid \in 1..Len(usrs) : usrs[uid].role = "reader" /\ usrs[uid].library = NoLibrary}

\* User.objects.create_user(..., role="reader", library=library), one reader after
\* the other, each with an address of its own.
ManagerCreateReader(library) ==
    LET email == <<ToString(Len(users) + 1), "x">>
        made == create_user(users, email, "p1", [role |-> "reader", library |-> library])
    IN /\ Len(users) < MaxDirectory
       /\ library \in {NoLibrary} \cup 1..Len(libraries)
       /\ library = NoLibrary => Cardinality(Outsiders(users)) < MaxOutsideReaders
       /\ users' = made.users
       /\ ret' = Ret("create_user", {[email |-> email, role |-> "reader",
                                      library |-> library]},
                     IF made.error = None THEN {Len(made.users)} ELSE {}, made.error)
       /\ resp' = NoResp
       /\ UNCHANGED <<libraries, session, pwTag, shown, inflight, site_configs, cache>>

Staff(usrs) == {uid \in 1..Len(usrs) : usrs[uid].role # "reader"}

NextReaders ==
    \/ \E e \in SetupEmails : SetupPost(e, "p1", "p1")
    \/ \E data \in DashLibraryData : LibraryCreatePost(data)
    \/ \E library \in {NoLibrary} \cup 1..Len(libraries) : ManagerCreateReader(library)
    \/ \E uid \in Staff(users) : LoginPost(uid, "p1")
    \/ LogoutPost
    \/ DashboardIndexGet
    \/ SuperAdminMixinViewGet

SpecReaders == Init /\ [][NextReaders]_vars

\* ================================================================ properties
RoleOf(usrs, uid) == IF uid \in 1..Len(usrs) THEN usrs[uid].role ELSE "anonymous"
LibraryOf(usrs, uid) == IF uid \in 1..Len(usrs) THEN usrs[uid].library ELSE NoLibrary

HasAdmin(pk) ==
    \E uid \in 1..Len(users) :
        users[uid].role = "library_admin" /\ users[uid].library = pk

\* The creation form reached LibraryCreateView.post (the gate let it through).
IsCreatePost(r) == r.view = "libraries:create" /\ r.method = "POST" /\ r.form # NoForm
CreateSucceeded(r) == IsCreatePost(r) /\ r.status = 302

\* C1: library creation is all-or-nothing: in every reachable state every Library
\* row written by the creation controller has its library_admin account.
C1_CreationAllOrNothing == \A pk \in 1..Len(libraries) : HasAdmin(pk)

\* C2: a creation request whose library e-mail is the e-mail of an existing User
\* is rejected by form validation: the answer is the form again (200), and no
\* Library and no User row is added.
C2_UserEmailCollisionRejected ==
    [][(IsCreatePost(resp') /\ EmailTaken(users, lower(resp'.form.email)))
        => (resp'.status = 200 /\ libraries' = libraries /\ users' = users)]_vars

\* The rows a successful creation adds: one Library, one User, the rest untouched.
AddsOneLibraryAndOneUser ==
    /\ Len(libraries') = Len(libraries) + 1
    /\ Len(users') = Len(users) + 1
    /\ SubSeq(libraries', 1, Len(libraries)) = libraries
    /\ SubSeq(users', 1, Len(users)) = users

NewAdminIs(lowered) ==
    LET library == libraries'[Len(libraries')]
        admin == users'[Len(users')]
    IN /\ admin.role = "library_admin"
       /\ admin.library = Len(libraries')
       /\ admin.email = IF lowered THEN lower(library.email) ELSE library.email
       /\ check_password(resp'.form.password1, admin.password)

SaveWithoutCommit(r) == r.view = "LibraryCreateForm.save" /\ r.method = "commit=False"

\* C3 (as amended): a successful creation adds exactly one Library and exactly one
\* User; that user has role library_admin, references the new Library, has the
\* lower-cased Library e-mail as its e-mail, and its password verifies against
\* password1.  LibraryCreateForm.save(commit=False) creates no User.
C3_SuccessfulCreation ==
    [][/\ CreateSucceeded(resp') => (AddsOneLibraryAndOneUser /\ NewAdminIs(TRUE))
       /\ SaveWithoutCommit(resp') => users' = users]_vars

\* C3 as stated: the admin's e-mail equals the Library's e-mail.
C3_AdminEmailEqualsLibraryEmail ==
    [][CreateSucceeded(resp') => (AddsOneLibraryAndOneUser /\ NewAdminIs(FALSE))]_vars

\* A creation succeeded for an address with capitals, and the account exists.
C3_Witness ==
    /\ CreateSucceeded(resp)
    /\ resp.form.email # lower(resp.form.email)
    /\ HasAdmin(resp.pk)
    /\ libraries[resp.pk].email = resp.form.email

\* The update endpoint was asked, by a library admin, for a library not its own.
AdminAsksOtherLibrary(r, usrs, withLibraryOnly) ==
    /\ r.view = "libraries:update"
    /\ RoleOf(usrs, r.user) = "library_admin"
    /\ withLibraryOnly => LibraryOf(usrs, r.user) # NoLibrary
    /\ r.pk # LibraryOf(usrs, r.user)

AdminAsksOwnLibrary(r, usrs) ==
    /\ r.view = "libraries:update"
    /\ RoleOf(usrs, r.user) = "library_admin"
    /\ LibraryOf(usrs, r.user) # NoLibrary
    /\ r.pk = LibraryOf(usrs, r.user)

\* C4 (as amended): a library_admin whose library reference is not null can fetch
\* or update only the Library with that id: GET or POST on the update endpoint for
\* any other id answers 404, whether or not that id exists, and changes no
\* library; for its own id the answer is 200 or the success redirect.
C4_OtherLibraryNotFound ==
    [][/\ AdminAsksOtherLibrary(resp', users', TRUE)
            => (resp'.status = 404 /\ libraries' = libraries /\ users' = users)
       /\ AdminAsksOwnLibrary(resp', users') => resp'.status \in {200, 302}]_vars

\* C4 as stated: every library_admin gets 404 for every id but its own.
C4_EveryAdminGets404 ==
    [][AdminAsksOtherLibrary(resp', users', FALSE)
          => (resp'.status = 404 /\ libraries' = libraries)]_vars

\* A library admin posted to the update page of another, existing library.
C4_Witness ==
    /\ AdminAsksOtherLibrary(resp, users, TRUE)
    /\ resp.method = "POST"
    /\ resp.pk \in 1..Len(libraries)
    /\ resp.status = 404

\* C5: generated_password equals the submitted password1 right after a successful
\* creation POST; the next GET of the creation page has it in its context and
\* leaves the session without it.
C5_PasswordStoredThenPopped ==
    [][/\ CreateSucceeded(resp')
            => session'.generated_password = resp'.form.password1
       /\ (/\ resp'.view = "libraries:create" /\ resp'.method = "GET"
           /\ resp'.status = 200 /\ session.generated_password # None)
            => (/\ resp'.generated_password = session.generated_password
                /\ session'.generated_password = None)]_vars

\* The creation page has just shown a password and the session no longer has it.
C5_Witness ==
    /\ resp.view = "libraries:create" /\ resp.method = "GET"
    /\ resp.generated_password \in Passwords
    /\ session.generated_password = None

\* C6: with requests handled one at a time, a stored password is put in a rendered
\* context at most once; once shown, no later request finds it in the session.
C6_ShownAtMostOnce ==
    /\ shown <= 1
    /\ shown = 1 => session.generated_password = None
    /\ resp.generated_password # None => shown = 1

\* The password was shown, and a later render of the creation page had none.
C6_Witness ==
    /\ shown = 1
    /\ resp.view = "libraries:create" /\ resp.status = 200
    /\ resp.generated_password = None
    /\ pwTag # 0

\* C7: of the concurrent GETs of the creation page in one session, at most one
\* response contains a given stored password.
C7_AtMostOneResponseShows ==
    \A r1, r2 \in 1..NumRequests :
        (r1 # r2 /\ inflight[r1].shownTag # 0)
            => inflight[r2].shownTag # inflight[r1].shownTag

\* C8: list and create answer an authenticated library_admin or reader with 403
\* and change nothing; a superadmin is served.
C8_ListCreateSuperadminOnly ==
    [][resp'.view \in {"libraries:list", "libraries:create"} =>
        /\ RoleOf(users, resp'.user) \in {"library_admin", "reader"}
              => (/\ resp'.status = 403
                  /\ UNCHANGED <<users, libraries, session>>)
        /\ RoleOf(users, resp'.user) = "superadmin"
              => (/\ resp'.status # 403
                  /\ resp'.loc # "login"
                  /\ resp'.method = "GET" => resp'.status = 200)]_vars

\* A library admin posted to the creation page and got 403.
C8_Witness ==
    /\ resp.view = "libraries:create" /\ resp.method = "POST"
    /\ RoleOf(users, resp.user) = "library_admin"
    /\ resp.status = 403

\* The principals the update endpoint is meant to admit.
UpdateContract(usrs, uid) ==
    /\ uid # Anonymous
    /\ \/ RoleOf(usrs, uid) = "superadmin"
       \/ RoleOf(usrs, uid) = "library_admin" /\ LibraryOf(usrs, uid) # NoLibrary

\* The gate let the request through to the view.
Admitted(r) == r.status # 403 /\ r.loc # "login"

\* C9: the update endpoint admits a principal iff it is authenticated and is a
\* superadmin or a library_admin with a library; an authenticated reader and a
\* library_admin without library get 403 for every id and nothing changes; a
\* superadmin reaches every existing library.
C9_UpdateGate ==
    [][resp'.view = "libraries:update" =>
        /\ Admitted(resp') <=> UpdateContract(users, resp'.user)
        /\ (resp'.user # Anonymous /\ ~UpdateContract(users, resp'.user))
              => (resp'.status = 403 /\ UNCHANGED <<users, libraries, session>>)
        /\ (RoleOf(users, resp'.user) = "superadmin" /\ resp'.pk \in 1..Len(libraries))
              => resp'.status \in {200, 302}]_vars

\* A library admin without library was refused the update page of a library.
C9_Witness ==
    /\ resp.view = "libraries:update"
    /\ RoleOf(users, resp.user) = "library_admin"
    /\ LibraryOf(users, resp.user) = NoLibrary
    /\ resp.pk \in 1..Len(libraries)
    /\ resp.status = 403

GatedViews ==
    {"dashboard:index", "dashboard:reader", "dashboard:mixin", "libraries:list",
     "libraries:create", "libraries:detail", "libraries:update"}

\* C10: every gate answers an unauthenticated request with a redirect to the
\* login page: the dashboard index, the reader placeholder, the library list,
\* create, detail and update views, and dashboard.SuperAdminRequiredMixin.
C10_AnonymousRedirectedToLogin ==
    (resp.view \in GatedViews /\ resp.user = Anonymous)
        => (resp.status = 302 /\ resp.loc = "login")

\* ---------------------------------------------------------------- site configuration
IsSave(r) == r.op = "save"
IsGetSolo(r) == r.op = "get_solo"
IsSiteConfigRead(r) == r.op = "site_config"
ReadFailed(r) == IsSiteConfigRead(r) /\ r.arg # {}

\* C14: after any sequence of saves (of instances with any initial key) and
\* get_solo calls the table holds at most one row, with primary key 1; every save
\* succeeds by rewriting that row, which then holds the values just saved.
C14_SingletonRewrittenBySave ==
    [][/\ Cardinality(site_configs') <= 1
       /\ \A row \in site_configs' : row.pk = SoloPk
       /\ IsSave(ret') =>
            /\ ret'.error = None
            /\ site_configs' = {[instance EXCEPT !.pk = SoloPk] : instance \in ret'.arg}]_vars

\* C15: get_solo on an empty table creates exactly one row, with primary key 1 and
\* the default site name "MediaBibli"; on a non-empty table it creates nothing and
\* returns the existing row unchanged.
C15_GetSoloIdempotent ==
    [][IsGetSolo(ret') =>
        /\ ret'.error = None
        /\ ret'.value = site_configs'
        /\ IF site_configs = {}
           THEN /\ Cardinality(site_configs') = 1
                /\ \A row \in site_configs' :
                      row.pk = SoloPk /\ row.site_name = "MediaBibli"
           ELSE site_configs' = site_configs]_vars

\* get_solo returned an existing row that a save had given other values.
C15_Witness ==
    /\ IsGetSolo(ret)
    /\ ret.arg # {}
    /\ ret.value = site_configs
    /\ \E row \in site_configs : row.site_name = "B" /\ row.maintenance_mode

\* C16: every write of the SiteConfig row invalidates the cache entry: a
\* site_config() read made after a save returns the values of the row as saved,
\* not an earlier snapshot.
C16_ReadAfterSaveIsFresh ==
    [][(IsSiteConfigRead(ret') /\ ~ReadFailed(ret') /\ site_configs # {})
          => ret'.value = site_configs]_vars

C18_StoredEmailsLowercase ==
    \A uid \in 1..Len(users) : users[uid].email = lower(users[uid].email)

IsCreateSuperuser(r) == r.op = "create_superuser"
AsksFlagOff(r) ==
    \E arg \in r.arg :
        \/ "is_staff" \in DOMAIN arg /\ ~arg.is_staff
        \/ "is_superuser" \in DOMAIN arg /\ ~arg.is_superuser

\* C19: every user whose role is superadmin has is_staff and is_superuser,
\* whichever entry point created it; create_superuser forces both flags, defaults
\* the role to superadmin, and raises ValueError, creating nothing, when is_staff
\* or is_superuser is passed as False.
C19_SuperadminIsStaffSuperuser ==
    [][/\ \A uid \in 1..Len(users') :
            users'[uid].role = "superadmin"
                => (users'[uid].is_staff /\ users'[uid].is_superuser)
       /\ (IsCreateSuperuser(ret') /\ AsksFlagOff(ret'))
            => (ret'.error = "ValueError" /\ users' = users)
       /\ (IsCreateSuperuser(ret') /\ ret'.error = None)
            => \A uid \in ret'.value :
                  /\ users'[uid].is_staff /\ users'[uid].is_superuser
                  /\ \A arg \in ret'.arg :
                        "role" \notin DOMAIN arg => users'[uid].role = "superadmin"]_vars

IsSetup(r) == r.view = "setup"
SetupFormValid(r) ==
    /\ r.method = "POST"
    /\ SuperAdminSetupForm_is_valid(r.form.email, r.form.password1, r.form.password2)

\* C20: the setup endpoint creates a user only when none exists: with a user in
\* the table GET and POST redirect to home and leave the table unchanged; with
\* none, a valid POST creates exactly one user, a superadmin with is_staff and
\* is_superuser, and logs it in; an invalid POST creates nothing and answers with
\* the form.
C20_SetupOnlyWhenNoUser ==
    [][IsSetup(resp') =>
        IF Len(users) > 0
        THEN resp'.status = 302 /\ resp'.loc = "home" /\ users' = users
        ELSE IF SetupFormValid(resp')
        THEN /\ Len(users') = 1
             /\ users'[1].role = "superadmin"
             /\ users'[1].is_staff /\ users'[1].is_superuser
             /\ session'.user_id = 1
             /\ resp'.status = 302
        ELSE /\ users' = users
             /\ resp'.status = 200 /\ resp'.template = "accounts/setup.html"]_vars

\* A valid setup form was posted while users existed, and was turned away.
C20_Witness ==
    /\ IsSetup(resp) /\ SetupFormValid(resp)
    /\ Len(users) > 1
    /\ resp.status = 302 /\ resp.loc = "home"
    /\ session.user_id = Anonymous

\* ---------------------------------------------------------------- dashboard
IsDashboard(r) == r.view = "dashboard:index"

\* The template the dashboard is meant to show a role.
TemplateOfRole(role) ==
    CASE role = "superadmin" -> "dashboard/superadmin.html"
      [] role = "library_admin" -> "dashboard/library_admin.html"
      [] OTHER -> "dashboard/reader_placeholder.html"

\* The kind of context a response carries.
ContextKind(r) ==
    IF r.context = {} THEN "none"
    ELSE IF \A c \in r.context : "total_users" \in DOMAIN c THEN "statistics"
    ELSE IF \A c \in r.context : "readers" \in DOMAIN c THEN "readers"
    ELSE "other"

ContextOfRole(role) ==
    CASE role = "superadmin" -> "statistics"
      [] role = "library_admin" -> "readers"
      [] OTHER -> "none"

\* C11: for an authenticated user GET /dashboard answers 200 and the view is a
\* function of the role alone: superadmin: superadmin.html with the statistics,
\* library_admin: library_admin.html with the readers, any other role:
\* reader_placeholder.html without aggregates; the reader short-circuit renders
\* the template get_template_names selects for a reader.
C11_DashboardByRole ==
    [][(IsDashboard(resp') /\ resp'.user # Anonymous) =>
        /\ resp'.status = 200
        /\ resp'.template = TemplateOfRole(RoleOf(users, resp'.user))
        /\ ContextKind(resp') = ContextOfRole(RoleOf(users, resp'.user))
        /\ RoleOf(users, resp'.user) = "reader"
              => resp'.template = get_template_names(RequestUser(resp'.user))]_vars

\* A library admin, a reader and a user of another role each saw their page.
C11_Witness ==
    /\ IsDashboard(resp)
    /\ RoleOf(users, resp.user) = "library_admin"
    /\ resp.template = "dashboard/library_admin.html"
    /\ ContextKind(resp) = "readers"
    /\ \E uid \in 1..Len(users) : users[uid].role = "guest"

\* The readers of a library, counted one row after the other.
RECURSIVE CountRows(_, _, _, _)
CountRows(rows, n, field, value) ==
    IF n = 0 THEN 0
    ELSE CountRows(rows, n - 1, field, value)
         + (IF rows[n][field] = value THEN 1 ELSE 0)

ReadersOf(usrs, library) ==
    {uid \in 1..Len(usrs) : usrs[uid].role = "reader" /\ usrs[uid].library = library}

\* C12: for a library_admin the dashboard's readers are readers of the admin's
\* library, at most 10 of them, and total_readers is the number of all readers of
\* that library, also when there are more than 10.
C12_ReadersAndTotal ==
    [][(IsDashboard(resp') /\ RoleOf(users, resp'.user) = "library_admin") =>
        \A c \in resp'.context :
            /\ c.readers \subseteq ReadersOf(users, LibraryOf(users, resp'.user))
            /\ Cardinality(c.readers) <= ReadersShown
            /\ c.total_readers
                 = Cardinality(ReadersOf(users, LibraryOf(users, resp'.user)))]_vars

\* C13: for a superadmin the six dashboard totals equal the counts of the matching
\* rows of the User and Library tables at the time of the request.
C13_SuperadminCounts ==
    [][(IsDashboard(resp') /\ RoleOf(users, resp'.user) = "superadmin") =>
        \A c \in resp'.context :
            /\ c.total_users = Len(users)
            /\ c.active_users = CountRows(users, Len(users), "is_active", TRUE)
            /\ c.total_readers = CountRows(users, Len(users), "role", "reader")
            /\ c.total_library_admins
                 = CountRows(users, Len(users), "role", "library_admin")
            /\ c.total_libraries = Len(libraries)
            /\ c.active_libraries
                 = CountRows(libraries, Len(libraries), "is_active", TRUE)]_vars

\* A superadmin saw the totals of tables holding an inactive user and an inactive
\* library.
C13_Witness ==
    /\ IsDashboard(resp)
    /\ RoleOf(users, resp.user) = "superadmin"
    /\ \E c \in resp.context :
          /\ c.active_users < c.total_users
          /\ c.active_libraries < c.total_libraries
          /\ c.total_readers = 1 /\ c.total_library_admins = 1

\* ---------------------------------------------------------------- home and detail
IsHome(r) == r.view = "home"

IsDetail(r) == r.view = "libraries:detail"

\* The users referring to a library, counted one row after the other.
RECURSIVE UsersOfLibrary(_, _, _)
UsersOfLibrary(usrs, n, pk) ==
    IF n = 0 THEN 0
    ELSE UsersOfLibrary(usrs, n - 1, pk) + (IF usrs[n].library = pk THEN 1 ELSE 0)

\* C22: library detail is served (200) to every authenticated user, of any role,
\* for every existing library id, and the user_count shown is the number of
\* users, of any role, whose library is that library.
C22_DetailForAnyRole ==
    [][(IsDetail(resp') /\ resp'.user # Anonymous /\ resp'.pk \in 1..Len(libraries)) =>
        /\ resp'.status = 200
        /\ \E c \in resp'.context :
              c.user_count = UsersOfLibrary(users, Len(users), resp'.pk)]_vars

\* A reader of no library saw the detail of a library whose only user is its
\* admin.
C22_Witness ==
    /\ IsDetail(resp)
    /\ RoleOf(users, resp.user) = "reader"
    /\ LibraryOf(users, resp.user) = NoLibrary
    /\ resp.status = 200
    /\ \E c \in resp.context : c.user_count = 1
    /\ resp.pk \in 1..Len(libraries)

\* ---------------------------------------------------------------- library update
UpdateSucceeded(r) ==
    /\ r.view = "libraries:update" /\ r.method = "POST"
    /\ r.status = 302 /\ r.user # Anonymous

\* C23: after a successful library update a superadmin is redirected to the
\* library list and a library_admin to the dashboard index.
C23_SuccessUrlByRole ==
    [][UpdateSucceeded(resp') =>
        /\ RoleOf(users, resp'.user) = "superadmin" => resp'.loc = "libraries:list"
        /\ RoleOf(users, resp'.user) = "library_admin"
              => resp'.loc = "dashboard:index"]_vars

\* A library admin updated its library and was sent to the dashboard.
C23_Witness ==
    /\ UpdateSucceeded(resp)
    /\ RoleOf(users, resp.user) = "library_admin"
    /\ resp.pk = LibraryOf(users, resp.user)
    /\ resp.loc = "dashboard:index"
    /\ libraries[resp.pk].name = "N2"

\* C24: after a successful creation POST the page it redirects to, the next GET
\* of the session, displays the generated password, and once that GET is rendered
\* the session no longer holds generated_password.
C24_SuccessPageShowsPassword ==
    [][(/\ CreateSucceeded(resp)
        /\ resp'.method = "GET" /\ resp'.view = resp.loc /\ resp'.user = resp.user)
          => (/\ resp'.generated_password = resp.form.password1
              /\ session'.generated_password = None)]_vars

IsUpdatePost(r) == r.view = "libraries:update" /\ r.method = "POST"

\* The accounts of a library whose login identity is the library's address,
\* as create_user stored it.
SameIdentity(usrs, libs, pk) ==
    {uid \in 1..Len(usrs) :
        /\ usrs[uid].library = pk
        /\ usrs[uid].email = lower(normalize_email(libs[pk].email))}

\* C29: a library update changes only name, phone, address, postal_code, city and
\* is_active of the targeted library: its e-mail, every other Library row and
\* every User row are unchanged, so a library e-mail equal to its admin's login
\* identity stays equal.
C29_UpdateFrame ==
    [][IsUpdatePost(resp') =>
        /\ users' = users
        /\ Len(libraries') = Len(libraries)
        /\ \A pk \in 1..Len(libraries) :
              /\ libraries'[pk].email = libraries[pk].email
              /\ pk # resp'.pk => libraries'[pk] = libraries[pk]
              /\ SameIdentity(users', libraries', pk) = SameIdentity(users, libraries, pk)]_vars

\* An update rewrote one of two libraries, whose admin has the library's address.
C29_Witness ==
    /\ UpdateSucceeded(resp)
    /\ Len(libraries) = 2
    /\ libraries[resp.pk].name = "N2" /\ ~libraries[resp.pk].is_active
    /\ SameIdentity(users, libraries, resp.pk) # {}
    /\ \E pk \in 1..Len(libraries) : libraries[pk].name = "N1"

\* pw is the password given to the admin account of library tag.
IsPasswordOf(pw, usrs, tag) ==
    \E uid \in 1..Len(usrs) :
        /\ usrs[uid].role = "library_admin" /\ usrs[uid].library = tag
        /\ check_password(pw, usrs[uid].password)

\* C30: the session holds at most one generated password, that of the latest
\* successful creation: a second creation before any render overwrites the
\* first one, which no later request displays.
C30_OnlyLatestPassword ==
    [][/\ session'.generated_password # None
            => IsPasswordOf(session'.generated_password, users', pwTag')
       /\ resp'.generated_password # None
            => IsPasswordOf(resp'.generated_password, users', pwTag')]_vars

\* Two libraries were created with different passwords, the first never shown
\* before the second was stored; the creation page then showed the second.
C30_Witness ==
    /\ pwTag = 2 /\ shown = 1
    /\ resp.view = "libraries:create"
    /\ resp.generated_password = "p2"
    /\ IsPasswordOf("p1", users, 1)
    /\ ~IsPasswordOf("p2", users, 1)

\* ---------------------------------------------------------------- superadmin mixin
IsMixinView(r) == r.view = "dashboard:mixin"

\* C26: dashboard.SuperAdminRequiredMixin lets a request reach the protected view
\* only if the principal is authenticated and has role superadmin; a library_admin
\* gets the library-admin dashboard with the readers of its library and a reader
\* gets the placeholder page, both with status 200, and nobody gets 403.
C26_MixinOnlySuperadmin ==
    [][IsMixinView(resp') =>
        /\ resp'.status # 403
        /\ resp'.template = "test_template.html"
              => (resp'.user # Anonymous /\ RoleOf(users, resp'.user) = "superadmin")
        /\ RoleOf(users, resp'.user) = "library_admin"
              => /\ resp'.status = 200
                 /\ resp'.template = "dashboard/library_admin.html"
                 /\ \E c \in resp'.context :
                       c.readers \subseteq ReadersOf(users, LibraryOf(users, resp'.user))
        /\ RoleOf(users, resp'.user) = "reader"
              => /\ resp'.status = 200
                 /\ resp'.template = "dashboard/reader_placeholder.html"]_vars

\* C27: for every library_admin and every content of the User table,
\* SuperAdminRequiredMixin.get_library_context and
\* DashboardIndexView._get_library_context return the same page_title, the same
\* total_readers and the same readers list.
C27_SameLibraryContext ==
    \A uid \in 1..Len(users) :
        users[uid].role = "library_admin" =>
            LET mixin == SuperAdminRequiredMixin_get_library_context(RequestUser(uid), users)
                index == get_library_context(RequestUser(uid), users)
            IN /\ mixin.page_title = index.page_title
               /\ mixin.total_readers = index.total_readers
               /\ mixin.readers = index.readers

\* ---------------------------------------------------------------- cached configuration
\* C25: site_config() serves the cached snapshot whenever the cache holds one, so
\* after the row is modified reads return the old values until the entry is
\* deleted; on an empty cache the call returns the row as it is and caches it.
C25_CachedSnapshotServed ==
    [][IsSiteConfigRead(ret') =>
        /\ cache # {}
              => (ret'.value = cache /\ cache' = cache /\ site_configs' = site_configs)
        /\ (cache = {} /\ ~ReadFailed(ret') /\ site_configs # {})
              => (ret'.value = site_configs /\ cache' = site_configs)]_vars

\* A read returned the snapshot "A" although the row had been saved as "B".
C25_Witness ==
    /\ IsSiteConfigRead(ret)
    /\ ret.value = cache
    /\ \E snapshot \in cache : snapshot.site_name = "A"
    /\ \E row \in site_configs : row.site_name = "B"

\* ---------------------------------------------------------------- concurrent setup
SetupSuperadmins(usrs) ==
    {uid \in 1..Len(usrs) : usrs[uid].role = "superadmin" /\ usrs[uid].is_superuser}

\* C28: under any interleaving of concurrent valid POSTs to /setup that start from
\* an empty User table, at most one superadmin account is created through the
\* setup endpoint.
C28_AtMostOneSetupSuperadmin == Cardinality(SetupSuperadmins(users)) <= 1

====
